---- MODULE Spec2Model ----
(***************************************************************************)
(* Model of buoys (src/src/main.rs): BuoyCollection over a MongoDB         *)
(* time-series collection.  The collection is a sequence of documents in   *)
(* insertion order; every method of BuoyCollection is one action, except   *)
(* load_csv whose record loop takes one step per CSV record so that the    *)
(* store is visible between two inserts.                                   *)
(*                                                                         *)
(* f32 values are written in hundredths (1.5 is 150); an instant is the    *)
(* number of minutes after 2017-01-01T00:00:00Z.                           *)
(***************************************************************************)
EXTENDS Integers, Sequences, FiniteSets

VARIABLES
    coll,    \* the documents of the collection on the server, in insertion order
    handle,  \* TRUE once BuoyCollection::new has returned Ok to the caller
    pc,      \* "idle" | "loading" (inside the loop of load_csv) | "panicked"
    last     \* the operation in progress or last completed, and what it returned

vars == <<coll, handle, pc, last>>

\* ---------------------------------------------------------------- bounds

\* Most documents the collection holds.
MaxDocs == 3

\* Most records one load_csv run reads.
MaxRows == 3

\* ------------------------------------------------------ program constants

\* draw_buoy: let mut i = -100.0
XStart == 0 - 100

\* ------------------------------------------------------------- CSV input

\* Records a CSV file can hold: ten fields in the order time, longitude,
\* latitude, station_id, significant_wave_height, mean_wave_period,
\* mean_wave_direction, wave_power, peak_period, energy_period.
RowB1 == <<"2017-01-01T00:00:00Z", "-10.15", "54.22", "Belmullet_Inner", "1.0", "5.5", "270.0", "3.2", "8.0", "6.1">>
RowB2 == <<"2017-01-01T00:10:00Z", "-10.15", "54.22", "Belmullet_Inner", "2.0", "5.5", "270.0", "3.2", "8.0", "6.1">>
RowB3 == <<"2017-01-01T00:20:00Z", "-10.15", "54.22", "Belmullet_Inner", "1.5", "5.5", "270.0", "3.2", "8.0", "6.1">>
\* The same instant as RowB1, written with an offset, for another station.
RowA1 == <<"2017-01-01T01:00:00+01:00", "-10.15", "54.22", "AMETS", "2.00", "5.5", "270.0", "3.2", "8.0", "6.1">>
\* A timestamp that is not RFC 3339.
RowBadTime == <<"01/01/2017 00:10", "-10.15", "54.22", "Belmullet_Inner", "2.0", "5.5", "270.0", "3.2", "8.0", "6.1">>
\* A measurement that is not a number.
RowBadNum == <<"2017-01-01T00:10:00Z", "-10.15", "54.22", "Belmullet_Inner", "n/a", "5.5", "270.0", "3.2", "8.0", "6.1">>
\* Both a bad timestamp and a bad number.
RowBadBoth == <<"", "-10.15", "abc", "AMETS", "2.0", "5.5", "270.0", "3.2", "8.0", "6.1">>
\* An empty station_id, every other field well-formed.
RowNoId == <<"2017-01-01T00:10:00Z", "-10.15", "54.22", "", "2.0", "5.5", "270.0", "3.2", "8.0", "6.1">>
\* A record of nine fields (no energy_period).
RowNine == <<"2017-01-01T00:20:00Z", "-10.15", "54.22", "AMETS", "1.5", "5.5", "270.0", "3.2", "8.0">>

Rows == {RowB1, RowB2, RowB3, RowA1, RowBadTime, RowBadNum, RowBadBoth, RowNoId, RowNine}

\* Number of fields of the header row, which csv::Reader requires of every record.
HeaderLens == {9, 10}

\* Station names a caller asks for: two with data, the empty name, one unknown.
Buoys == {"Belmullet_Inner", "AMETS", "", "M6"}

\* ------------------------------------------------------------ conversions

\* bson::DateTime::parse_rfc3339_str: the instant, or an error.
ParseRfc3339(s) ==
    CASE s = "2017-01-01T00:00:00Z"      -> [ok |-> TRUE, v |-> 0]
      [] s = "2017-01-01T01:00:00+01:00" -> [ok |-> TRUE, v |-> 0]
      [] s = "2017-01-01T00:10:00Z"      -> [ok |-> TRUE, v |-> 10]
      [] s = "2017-01-01T00:20:00Z"      -> [ok |-> TRUE, v |-> 20]
      [] OTHER                           -> [ok |-> FALSE, v |-> 0]

\* str::parse::<f32>: the value in hundredths, or an error.
ParseF32(s) ==
    CASE s = "1.0"    -> [ok |-> TRUE, v |-> 100]
      [] s = "1.5"    -> [ok |-> TRUE, v |-> 150]
      [] s = "2.0"    -> [ok |-> TRUE, v |-> 200]
      [] s = "2.00"   -> [ok |-> TRUE, v |-> 200]
      [] s = "3.2"    -> [ok |-> TRUE, v |-> 320]
      [] s = "5.5"    -> [ok |-> TRUE, v |-> 550]
      [] s = "6.1"    -> [ok |-> TRUE, v |-> 610]
      [] s = "8.0"    -> [ok |-> TRUE, v |-> 800]
      [] s = "54.22"  -> [ok |-> TRUE, v |-> 5422]
      [] s = "270.0"  -> [ok |-> TRUE, v |-> 27000]
      [] s = "-10.15" -> [ok |-> TRUE, v |-> 0 - 1015]
      [] OTHER        -> [ok |-> FALSE, v |-> 0]

\* record.get(i).unwrap_or_default(): field i counted from 0, "" when absent.
Get(record, i) == IF i + 1 <= Len(record) THEN record[i + 1] ELSE ""

\* The BuoyDatum literal of load_csv.  Its fields are evaluated in order: the
\* timestamp first, whose error `?` returns, then the f32 fields, whose error
\* unwrap() turns into a panic; station_id is copied as it is.
Decode(record) ==
    LET t   == ParseRfc3339(Get(record, 0))
        num == [i \in {1, 2, 4, 5, 6, 7, 8, 9} |-> ParseF32(Get(record, i))]
        datum == [time                    |-> t.v,
                  longitude               |-> num[1].v,
                  latitude                |-> num[2].v,
                  station_id              |-> Get(record, 3),
                  significant_wave_height |-> num[4].v,
                  mean_wave_period        |-> num[5].v,
                  mean_wave_direction     |-> num[6].v,
                  wave_power              |-> num[7].v,
                  peak_period             |-> num[8].v,
                  energy_period           |-> num[9].v]
    IN  IF ~t.ok THEN [kind |-> "err", datum |-> datum]
        ELSE IF \E i \in DOMAIN num : ~num[i].ok THEN [kind |-> "panic", datum |-> datum]
        ELSE [kind |-> "ok", datum |-> datum]

\* ------------------------------------------------------ server operations

\* A drop that leaves the documents where they are.
DropNothing(c) == c

\* coll.drop: the collection and all its documents are gone.
Drop(c) == <<>>

\* An insert that replaces the document of the same station and time, if any.
Upsert(c, datum) ==
    IF \E k \in 1..Len(c) : c[k].station_id = datum.station_id /\ c[k].time = datum.time
    THEN [k \in 1..Len(c) |->
             IF c[k].station_id = datum.station_id /\ c[k].time = datum.time
             THEN datum ELSE c[k]]
    ELSE Append(c, datum)

\* coll.insert_one: one more document, after the others.
InsertOne(c, datum) == Append(c, datum)

\* A delete_one: only the first document of the station goes.
DeleteFirst(c, buoy) ==
    IF \E k \in 1..Len(c) : c[k].station_id = buoy
    THEN LET k == CHOOSE k \in 1..Len(c) :
                      /\ c[k].station_id = buoy
                      /\ \A j \in 1..(k - 1) : c[j].station_id # buoy
         IN  SubSeq(c, 1, k - 1) \o SubSeq(c, k + 1, Len(c))
    ELSE c

\* A delete_many with the empty filter.
DeleteAll(c, buoy) == <<>>

\* coll.delete_many(doc! { "station_id": buoy }).
DeleteMany(c, buoy) == SelectSeq(c, LAMBDA d : d.station_id # buoy)

\* coll.distinct("station_id", doc! {}): each value once, in order of first
\* appearance.
RECURSIVE DistinctFrom(_, _)
DistinctFrom(c, acc) ==
    IF c = <<>> THEN acc
    ELSE IF \E k \in 1..Len(acc) : acc[k] = Head(c).station_id
         THEN DistinctFrom(Tail(c), acc)
         ELSE DistinctFrom(Tail(c), Append(acc, Head(c).station_id))

\* The station of every document, repeated as often as it occurs.
EveryStationId(c) == [k \in 1..Len(c) |-> c[k].station_id]

Distinct(c) == DistinctFrom(c, <<>>)

\* The filter doc! { "station_id": buoy } of find.
Filter(c, buoy) == SelectSeq(c, LAMBDA d : d.station_id = buoy)

\* One document put into a sequence sorted by time.  The server does not
\* say in which order it returns documents of equal time: tieFirst tells
\* whether the new document goes before or after them.
RECURSIVE InsertByTime(_, _, _)
InsertByTime(sorted, d, tieFirst) ==
    IF sorted = <<>> THEN <<d>>
    ELSE IF d.time < Head(sorted).time \/ (tieFirst /\ d.time = Head(sorted).time)
         THEN <<d>> \o sorted
         ELSE <<Head(sorted)>> \o InsertByTime(Tail(sorted), d, tieFirst)

\* A find without the sort option.
NoSort(c, tieFirst) == c

\* sort(doc! { "time": 1 }).
RECURSIVE SortByTime(_, _)
SortByTime(c, tieFirst) ==
    IF c = <<>> THEN <<>>
    ELSE InsertByTime(SortByTime(Tail(c), tieFirst), Head(c), tieFirst)

\* coll.find(doc! { "station_id": buoy }, sort time ascending).
Find(c, buoy, tieFirst) == SortByTime(Filter(c, buoy), tieFirst)

\* The loop of draw_buoy: swh.push((i, significant_wave_height)); i += 1.0.
RECURSIVE SwhFrom(_, _)
SwhFrom(cur, i) ==
    IF cur = <<>> THEN <<>>
    ELSE <<(<<i, Head(cur).significant_wave_height>>)>> \o SwhFrom(Tail(cur), i + 1)

\* The loop of draw_buoy with i starting at 0.
SwhFromZero(cur) == SwhFrom(cur, 0)

Swh(cur) == SwhFrom(cur, XStart)

\* ----------------------------------------------------------------- state

\* What a completed operation leaves for the caller to see.
Outcome(op, arg, res, cause, before) ==
    [op |-> op, arg |-> arg, res |-> res, cause |-> cause, before |-> before,
     seen |-> <<>>, ncols |-> 0, found |-> <<>>, out |-> <<>>, reinit |-> FALSE]

\* Collections left on the server by an earlier process.
Leftovers == {<<>>, <<Decode(RowA1).datum>>, <<Decode(RowB2).datum, Decode(RowB1).datum>>}

Init ==
    /\ coll \in Leftovers
    /\ handle = FALSE
    /\ pc = "idle"
    /\ last = Outcome("none", "", "ok", "", coll)

\* --------------------------------------------------------------- actions

\* BuoyCollection::new.  failAt names the first call that returns an error:
\* the connection, the ping, the drop or the create_collection.
New(failAt) ==
    /\ pc = "idle"
    /\ coll' = IF failAt \in {"connect", "ping", "drop"} THEN coll ELSE Drop(coll)
    /\ handle' = (handle \/ failAt = "none")
    /\ last' = [Outcome("new", "coll", IF failAt = "none" THEN "ok" ELSE "err", failAt, coll)
                    EXCEPT !.reinit = handle]
    /\ UNCHANGED pc

\* load_csv up to the loop: csv::Reader::from_path opens the file and reads
\* the header, or fails.
LoadOpen(ncols, openFails) ==
    /\ pc = "idle"
    /\ handle
    /\ IF openFails
       THEN /\ last' = Outcome("load", "", "err", "open", coll)
            /\ UNCHANGED pc
       ELSE /\ last' = [Outcome("load", "", "running", "", coll) EXCEPT !.ncols = ncols]
            /\ pc' = "loading"
    /\ UNCHANGED <<coll, handle>>

\* One iteration of the loop of load_csv on the next record of the file.  An
\* insert_one that returns an error is taken to have stored nothing.
LoadRecord(record, insertFails) ==
    /\ pc = "loading"
    /\ Len(last.seen) < MaxRows
    /\ Len(coll) < MaxDocs
    /\ LET seen == Append(last.seen, record)
           dec  == Decode(record)
           stop(res, cause) == [last EXCEPT !.seen = seen, !.res = res, !.cause = cause]
       IN  IF Len(record) # last.ncols
           THEN \* let record = result?  (csv: UnequalLengths)
                /\ last' = stop("err", "csv")
                /\ pc' = "idle"
                /\ UNCHANGED coll
           ELSE IF dec.kind = "err"
           THEN \* parse_rfc3339_str(time_str)?
                /\ last' = stop("err", "time")
                /\ pc' = "idle"
                /\ UNCHANGED coll
           ELSE IF dec.kind = "panic"
           THEN \* parse::<f32>().unwrap()
                /\ last' = stop("panic", "number")
                /\ pc' = "panicked"
                /\ UNCHANGED coll
           ELSE IF insertFails
           THEN \* insert_one(..)?
                /\ last' = stop("err", "insert")
                /\ pc' = "idle"
                /\ UNCHANGED coll
           ELSE /\ coll' = InsertOne(coll, dec.datum)
                /\ last' = [last EXCEPT !.seen = seen]
                /\ UNCHANGED pc
    /\ UNCHANGED handle

\* The end of the file: the loop of load_csv ends and it returns Ok(()).
LoadFinish ==
    /\ pc = "loading"
    /\ last' = [last EXCEPT !.res = "ok"]
    /\ pc' = "idle"
    /\ UNCHANGED <<coll, handle>>

\* delete_buoy.  A delete_many that returns an error is taken to have removed
\* nothing.
DeleteBuoy(buoy, fails) ==
    /\ pc = "idle"
    /\ handle
    /\ coll' = IF fails THEN coll ELSE DeleteMany(coll, buoy)
    /\ last' = Outcome("delete", buoy, IF fails THEN "err" ELSE "ok",
                       IF fails THEN "delete_many" ELSE "", coll)
    /\ UNCHANGED <<handle, pc>>

\* list_buoys: out is the list it prints.
ListBuoys(fails) ==
    /\ pc = "idle"
    /\ handle
    /\ last' = [Outcome("list", "", IF fails THEN "err" ELSE "ok",
                        IF fails THEN "distinct" ELSE "", coll)
                    EXCEPT !.out = IF fails THEN <<>> ELSE Distinct(coll)]
    /\ UNCHANGED <<coll, handle, pc>>

\* draw_buoy: found is what the cursor yields, out the points it plots.  An
\* error of find or of the cursor returns before anything is plotted.
DrawBuoy(buoy, fails, tieFirst) ==
    /\ pc = "idle"
    /\ handle
    /\ LET cur == Find(coll, buoy, tieFirst)
       IN  last' = [Outcome("draw", buoy, IF fails THEN "err" ELSE "ok",
                            IF fails THEN "find" ELSE "", coll)
                        EXCEPT !.found = IF fails THEN <<>> ELSE cur,
                               !.out = IF fails THEN <<>> ELSE Swh(cur)]
    /\ UNCHANGED <<coll, handle, pc>>

Next ==
    \/ \E failAt \in {"none", "connect", "ping", "drop", "create"} : New(failAt)
    \/ \E ncols \in HeaderLens, openFails \in BOOLEAN : LoadOpen(ncols, openFails)
    \/ \E record \in Rows, insertFails \in BOOLEAN : LoadRecord(record, insertFails)
    \/ LoadFinish
    \/ \E buoy \in Buoys, fails \in BOOLEAN : DeleteBuoy(buoy, fails)
    \/ \E fails \in BOOLEAN : ListBuoys(fails)
    \/ \E buoy \in Buoys, fails \in BOOLEAN, tieFirst \in BOOLEAN : DrawBuoy(buoy, fails, tieFirst)

Spec == Init /\ [][Next]_vars

\* ------------------------------------------------------ notions of the claims

\* The documents of a sequence, as a set.
Range(s) == {s[k] : k \in 1..Len(s)}

\* How often d occurs in s.
Count(s, d) == Cardinality({k \in 1..Len(s) : s[k] = d})

\* A valid row: ten fields, a timestamp and nine numbers that parse, and a
\* station_id that is not empty.
ValidRow(record) ==
    /\ Len(record) = 10
    /\ ParseRfc3339(record[1]).ok
    /\ \A i \in {2, 3, 5, 6, 7, 8, 9, 10} : ParseF32(record[i]).ok
    /\ record[4] # ""

\* The readings of the valid rows of a sequence of rows, in their order.
RECURSIVE ValidReadings(_)
ValidReadings(records) ==
    IF records = <<>> THEN <<>>
    ELSE IF ValidRow(Head(records))
         THEN <<Decode(Head(records)).datum>> \o ValidReadings(Tail(records))
         ELSE ValidReadings(Tail(records))

\* The rows of the current or last load_csv run that reached a successful insert.
Accepted ==
    IF last.res \in {"running", "ok"} THEN Len(last.seen)
    ELSE IF last.seen = <<>> THEN 0 ELSE Len(last.seen) - 1

\* ---------------------------------------------------------------- claims

\* C1: a load_csv run that meets no store failure does not stop at a
\* malformed row (bad timestamp, bad number, empty station_id): it returns Ok
\* and the collection then holds, after what it held before, exactly the
\* readings of the valid rows read.
C1_MalformedRowsDoNotAbort ==
    (/\ last.op = "load"
     /\ pc # "loading"
     /\ last.cause \notin {"open", "csv", "insert"})
    => /\ last.res = "ok"
       /\ coll = last.before \o ValidReadings(last.seen)

\* C2: every document of the collection has a station_id that is not empty,
\* and every row load_csv has inserted is a valid row.
C2_PersistedReadingsWellFormed ==
    /\ \A k \in 1..Len(coll) : coll[k].station_id # ""
    /\ last.op = "load" => \A i \in 1..Accepted : ValidRow(last.seen[i])

\* C3: after BuoyCollection::new returns Ok the collection is empty, whatever
\* it held: distinct returns nothing and find returns nothing for any station.
C3_NewLeavesEmptyCollection ==
    (last.op = "new" /\ last.res = "ok")
    => /\ coll = <<>>
       /\ Distinct(coll) = <<>>
       /\ \A b \in Buoys, t \in BOOLEAN : Find(coll, b, t) = <<>>

\* A second successful new, on a collection that held documents.
C3_Witness ==
    /\ last.op = "new"
    /\ last.res = "ok"
    /\ last.reinit
    /\ Len(last.before) >= 2

\* C4: after delete_buoy(S) returns Ok no document of station S is left: find
\* for S is empty, distinct does not list S, and a draw_buoy(S) on a
\* collection without documents of S returns Ok with nothing to plot.
C4_DeleteRemovesSource ==
    /\ (last.op = "delete" /\ last.res = "ok")
       => /\ \A k \in 1..Len(coll) : coll[k].station_id # last.arg
          /\ \A t \in BOOLEAN : Find(coll, last.arg, t) = <<>>
          /\ \A k \in 1..Len(Distinct(coll)) : Distinct(coll)[k] # last.arg
    /\ (/\ last.op = "draw"
        /\ last.res = "ok"
        /\ \A k \in 1..Len(coll) : coll[k].station_id # last.arg)
       => last.found = <<>> /\ last.out = <<>>

\* A successful delete_buoy of a station that had two documents or more.
C4_Witness ==
    /\ last.op = "delete"
    /\ last.res = "ok"
    /\ Cardinality({k \in 1..Len(last.before) : last.before[k].station_id = last.arg}) >= 2

\* C5: the find of draw_buoy(S) yields each document of station S as often
\* as the collection holds it and no other document, in non-decreasing time.
C5_FindSortedByTime ==
    (last.op = "draw" /\ last.res = "ok")
    => /\ \A d \in Range(coll) \cup Range(last.found) :
             Count(last.found, d) = IF d.station_id = last.arg THEN Count(coll, d) ELSE 0
       /\ Len(last.found) = Cardinality({k \in 1..Len(coll) : coll[k].station_id = last.arg})
       /\ \A k \in 1..(Len(last.found) - 1) : last.found[k].time <= last.found[k + 1].time

\* A successful draw_buoy of a station whose documents were inserted out of
\* time order, with documents of another station in the collection.
C5_Witness ==
    /\ last.op = "draw"
    /\ last.res = "ok"
    /\ \E i, j \in 1..Len(coll) :
          /\ i < j
          /\ coll[i].station_id = last.arg
          /\ coll[j].station_id = last.arg
          /\ coll[i].time > coll[j].time
    /\ \E k \in 1..Len(coll) : coll[k].station_id # last.arg

\* C6: in every state distinct("station_id") lists, each once, exactly the
\* stations that have a document in the collection, and that is the list a
\* successful list_buoys prints.
C6_DistinctIsSetOfSources ==
    /\ \A i, j \in 1..Len(Distinct(coll)) : Distinct(coll)[i] = Distinct(coll)[j] => i = j
    /\ {Distinct(coll)[k] : k \in 1..Len(Distinct(coll))} = {coll[k].station_id : k \in 1..Len(coll)}
    /\ (last.op = "list" /\ last.res = "ok")
       => /\ \A i, j \in 1..Len(last.out) : last.out[i] = last.out[j] => i = j
          /\ {last.out[k] : k \in 1..Len(last.out)} = {coll[k].station_id : k \in 1..Len(coll)}

\* A successful list_buoys of a collection with two stations, one of them
\* with two documents.
C6_Witness ==
    /\ last.op = "list"
    /\ last.res = "ok"
    /\ Len(last.out) = 2
    /\ Len(coll) = 3

\* C7, as claimed: the k-th point draw_buoy plots, k counted from 0, is
\* (k, significant_wave_height of the k-th document in time order).
C7_IndexCountsFromZero ==
    (last.op = "draw" /\ last.res = "ok")
    => /\ Len(last.out) = Len(last.found)
       /\ \A k \in 1..Len(last.out) :
             last.out[k] = <<k - 1, last.found[k].significant_wave_height>>

\* C7, amended: the k-th point draw_buoy plots, k counted from 0, is
\* (-100 + k, significant_wave_height of the k-th document in time order).
C7_IndexCountsFromMinus100 ==
    (last.op = "draw" /\ last.res = "ok")
    => /\ Len(last.out) = Len(last.found)
       /\ \A k \in 1..Len(last.out) :
             last.out[k] = <<k - 101, last.found[k].significant_wave_height>>

\* The scenario: three documents of Belmullet_Inner with ascending times and
\* wave heights 1.0, 2.0, 1.5 are drawn as (-100, 1.0), (-99, 2.0), (-98, 1.5).
C7_Witness ==
    /\ last.op = "draw"
    /\ last.res = "ok"
    /\ last.arg = "Belmullet_Inner"
    /\ coll = <<Decode(RowB1).datum, Decode(RowB2).datum, Decode(RowB3).datum>>
    /\ last.out = <<(<<0 - 100, 100>>), (<<0 - 99, 200>>), (<<0 - 98, 150>>)>>

\* C8: when insert_one fails at row p of a load_csv run, the run returns an
\* error and the collection holds, after what it held before the run,
\* exactly the readings of the valid rows among the first p-1 rows.
C8_InsertFailureKeepsValidRows ==
    (last.op = "load" /\ last.res = "err" /\ last.cause = "insert")
    => /\ pc = "idle"
       /\ coll = last.before \o ValidReadings(SubSeq(last.seen, 1, Len(last.seen) - 1))

\* C9: a successful delete_buoy(S) leaves every document of every other
\* station as often in the collection as before, and leaves the collection
\* as it was when station S had no document.
C9_DeleteLeavesOtherSources ==
    (last.op = "delete" /\ last.res = "ok")
    => /\ \A d \in Range(last.before) \cup Range(coll) :
             d.station_id # last.arg => Count(coll, d) = Count(last.before, d)
       /\ (\A k \in 1..Len(last.before) : last.before[k].station_id # last.arg)
          => coll = last.before

\* A successful delete_buoy of a station with documents, on a collection
\* that also holds documents of another station.
C9_Witness ==
    /\ last.op = "delete"
    /\ last.res = "ok"
    /\ \E k \in 1..Len(last.before) : last.before[k].station_id = last.arg
    /\ \E k \in 1..Len(last.before) : last.before[k].station_id # last.arg
    /\ coll # <<>>

\* C10: during and after a load_csv run the collection is what it was before
\* the run followed by one document for each row inserted, in row order:
\* each insert adds one document and changes none, also when a document of
\* the same station and time is already there.
C10_InsertAppendsOne ==
    last.op = "load"
    => /\ Len(coll) = Len(last.before) + Accepted
       /\ \A k \in 1..Len(last.before) : coll[k] = last.before[k]
       /\ \A i \in 1..Accepted : coll[Len(last.before) + i] = Decode(last.seen[i]).datum

\* A load_csv run that has inserted a row whose station and time a document
\* of the collection already had.
C10_Witness ==
    /\ last.op = "load"
    /\ \E i, j \in 1..Len(coll) :
          /\ i < j
          /\ j > Len(last.before)
          /\ coll[i].station_id = coll[j].station_id
          /\ coll[i].time = coll[j].time

====
